---- MODULE Spec2Model ----
(***************************************************************************)
(* Cup (custom unpacker-packer): the archive format, pack, info and unpack *)
(* of src/cup/archiver.py and src/cup/fileheader.py, byte for byte.        *)
(*                                                                         *)
(* A string is a sequence of code points, a byte string a sequence of      *)
(* numbers 0..255, an absolute path a sequence of components (strings).    *)
(***************************************************************************)
EXTENDS Integers, Sequences, FiniteSets, TLC

(***************************************************************************)
(* Bounds of the model.                                                    *)
(***************************************************************************)
\* pack is called with 1..MaxArgs path arguments
MaxArgs == 2
\* the scan loop is followed for at most MaxScan decoded headers
MaxScan == 6

(***************************************************************************)
(* Program constants.                                                      *)
(***************************************************************************)
CHUNK_SIZE == 4096
FILE_SIGNATURE == <<95, 95, 67, 95, 95, 85, 95, 95, 80, 95, 95>>
BYTES_FOR == [offset |-> 8, timestamp |-> 4, file_size |-> 4, file_path_length |-> 2]
\* sum(BYTES_FOR.values())
BytesForSum == BYTES_FOR.offset + BYTES_FOR.timestamp + BYTES_FOR.file_size
                 + BYTES_FOR.file_path_length

(***************************************************************************)
(* Python's bytes, slices and integers.                                    *)
(***************************************************************************)
\* F applied to the value of x: x is evaluated once
Bind(x, F(_)) == CHOOSE y \in {F(v) : v \in {x}} : TRUE

Min(a, b) == IF a < b THEN a ELSE b
Max(a, b) == IF a < b THEN b ELSE a

\* s[i:j], 0-based and half-open, clamped to the length as Python clamps it
Slice(s, i, j) ==
    Bind(s, LAMBDA v : SubSeq(v, Min(i, Len(v)) + 1, Min(j, Len(v))))

\* s[i:j] = new on a bytearray: the slice is replaced, the array resized
SliceAssign(s, i, j, new) ==
    Bind(s, LAMBDA v : Slice(v, 0, i) \o new \o Slice(v, Max(i, j), Len(v)))

\* bytearray(n)
Zeros(n) == [k \in 1..n |-> 0]

\* n.to_bytes(w, 'little'), for 0 <= n < 256^w (OverflowError otherwise)
RECURSIVE ToBytes(_, _)
ToBytes(n, w) == IF w = 0 THEN <<>> ELSE <<n % 256>> \o ToBytes(n \div 256, w - 1)

RECURSIVE FitsBytes(_, _)
FitsBytes(n, w) == IF w = 0 THEN n = 0 ELSE n >= 0 /\ FitsBytes(n \div 256, w - 1)

RECURSIVE FromBytesAt(_, _)
FromBytesAt(b, k) == IF k > Len(b) THEN 0 ELSE b[k] + 256 * FromBytesAt(b, k + 1)

\* int.from_bytes(b, 'little'); the empty byte string gives 0
FromBytes(b) == Bind(b, LAMBDA v : FromBytesAt(v, 1))

\* the UTF-8 encoding of one code point
EncodeChar(c) ==
    IF c < 128 THEN <<c>>
    ELSE IF c < 2048 THEN <<192 + (c \div 64), 128 + (c % 64)>>
    ELSE IF c < 65536 THEN <<224 + (c \div 4096), 128 + ((c \div 64) % 64), 128 + (c % 64)>>
    ELSE <<240 + (c \div 262144), 128 + ((c \div 4096) % 64),
           128 + ((c \div 64) % 64), 128 + (c % 64)>>

RECURSIVE EncodeFrom(_, _)
EncodeFrom(s, k) == IF k > Len(s) THEN <<>> ELSE EncodeChar(s[k]) \o EncodeFrom(s, k + 1)

\* str.encode(): UTF-8
Encode(s) == Bind(s, LAMBDA v : EncodeFrom(v, 1))

IsCont(b, k) == k <= Len(b) /\ b[k] >= 128 /\ b[k] < 192

\* the UTF-8 sequence that starts at b[k]: its length n (0: invalid) and
\* its code point
CharAt(b, k) ==
    LET b1 == b[k]
        n  == IF b1 < 128 THEN 1
              ELSE IF b1 >= 194 /\ b1 < 224 /\ IsCont(b, k + 1) THEN 2
              ELSE IF b1 >= 224 /\ b1 < 240 /\ IsCont(b, k + 1) /\ IsCont(b, k + 2) THEN 3
              ELSE IF b1 >= 240 /\ b1 < 245 /\ IsCont(b, k + 1) /\ IsCont(b, k + 2)
                      /\ IsCont(b, k + 3) THEN 4
              ELSE 0
        cp == IF n = 1 THEN b1
              ELSE IF n = 2 THEN (b1 - 192) * 64 + (b[k + 1] - 128)
              ELSE IF n = 3 THEN (b1 - 224) * 4096 + (b[k + 1] - 128) * 64
                                   + (b[k + 2] - 128)
              ELSE IF n = 4 THEN (b1 - 240) * 262144 + (b[k + 1] - 128) * 4096
                                   + (b[k + 2] - 128) * 64 + (b[k + 3] - 128)
              ELSE 0
        good == /\ n > 0
                /\ (n = 3 => cp >= 2048 /\ ~(cp >= 55296 /\ cp < 57344))
                /\ (n = 4 => cp >= 65536 /\ cp < 1114112)
    IN  [n |-> IF good THEN n ELSE 0, cp |-> cp]

RECURSIVE DecodeFrom(_, _)
DecodeFrom(b, k) ==
    IF k > Len(b) THEN [ok |-> TRUE, str |-> <<>>]
    ELSE Bind(CharAt(b, k), LAMBDA c :
           IF c.n = 0 THEN [ok |-> FALSE, str |-> <<>>]
           ELSE Bind(DecodeFrom(b, k + c.n), LAMBDA rest :
                  IF rest.ok THEN [ok |-> TRUE, str |-> <<c.cp>> \o rest.str]
                  ELSE [ok |-> FALSE, str |-> <<>>]))

\* bytes.decode(): strict UTF-8; ok = FALSE is UnicodeDecodeError
Decode(b) == Bind(b, LAMBDA v : DecodeFrom(v, 1))

RECURSIVE StrLessFrom(_, _, _)
StrLessFrom(s, t, k) ==
    IF k > Len(t) THEN FALSE
    ELSE IF k > Len(s) THEN TRUE
    ELSE IF s[k] # t[k] THEN s[k] < t[k]
    ELSE StrLessFrom(s, t, k + 1)

\* s < t for Python strings: lexicographic by code point
StrLess(s, t) == StrLessFrom(s, t, 1)

(***************************************************************************)
(* FileHeader: the object is its header_array.                             *)
(***************************************************************************)
header_size(h) == Len(h)
file_offset(h) == FromBytes(Slice(h, 0, 8))
file_timestamp(h) == FromBytes(Slice(h, 8, 12))
file_size(h) == FromBytes(Slice(h, 12, 16))
file_path_length(h) == FromBytes(Slice(h, 16, 18))
\* the decoded path: [ok, str]
file_path(h) == Bind(h, LAMBDA a : Decode(Slice(a, 18, 18 + file_path_length(a))))

set_file_offset(h, offset) == SliceAssign(h, 0, 8, ToBytes(offset, BYTES_FOR.offset))
set_file_timestamp(h, ts) == SliceAssign(h, 8, 12, ToBytes(ts, BYTES_FOR.timestamp))
set_file_size(h, size) == SliceAssign(h, 12, 16, ToBytes(size, BYTES_FOR.file_size))
set_file_path_length(h, n) ==
    SliceAssign(h, 16, 18, ToBytes(n, BYTES_FOR.file_path_length))
\* bytes_for_file_path is len() of the str, the slice receives its encoding
set_file_path(h, path) == SliceAssign(h, 18, 18 + Len(path), Encode(path))

with_different_path(h, new_file_path) ==
    set_file_path(
        set_file_path_length(
            SliceAssign(Zeros(BytesForSum + Len(new_file_path)), 0, BytesForSum,
                        Slice(h, 0, BytesForSum)),
            Len(new_file_path)),
        new_file_path)

\* FileHeader.from_archive with the stream at pos: the header_array read.
\* a from_archive that takes every header for the 18 fixed bytes
from_archive_fixed(data, pos) == Slice(data, pos, pos + BytesForSum)

\* The stream position is pos again when it returns.
from_archive(data, pos) ==
    Slice(data, pos, pos + BytesForSum + FromBytes(Slice(data, pos + 16, pos + 18)))

(***************************************************************************)
(* The file system the program runs on.  A node is absent ("none"), a      *)
(* regular file, a directory, or something else ("other").  st_mtime10 is  *)
(* st_mtime in tenths of a second: st_mtime is a float.                    *)
(***************************************************************************)
Root == <<47>>
Sep == <<47>>
nA == <<97>>
nB == <<98>>
nC == <<99>>
nD == <<100>>
nE == <<101>>
nN == <<110>>
nO == <<111>>
nR == <<114>>
nS == <<115>>

\* every absolute path of the model, in the order a directory lists its children
Listing ==
    << <<nA>>, <<nB>>, <<nD>>, <<nD, nA>>, <<nD, nS>>, <<nD, nS, nC>>,
       <<nE>>, <<nE, nD>>, <<nN>>, <<nO>> >>
AbsPaths == {Listing[i] : i \in 1..Len(Listing)}

Absent == [kind |-> "none", data |-> <<>>, st_mtime10 |-> 0]
Dir == [kind |-> "dir", data |-> <<>>, st_mtime10 |-> 0]
File(data, m) == [kind |-> "file", data |-> data, st_mtime10 |-> m]

\* the source tree: /a "hi", /b "world", /d/a "x", /d/s/c empty, /e/d "E";
\* /n does not exist; /o is where archives are kept
SourceTree ==
    [p \in AbsPaths |->
        CASE p = <<nA>> -> File(<<104, 105>>, 125)
          [] p = <<nB>> -> File(<<119, 111, 114, 108, 100>>, 309)
          [] p = <<nD>> -> Dir
          [] p = <<nD, nA>> -> File(<<120>>, 77)
          [] p = <<nD, nS>> -> Dir
          [] p = <<nD, nS, nC>> -> File(<<>>, 1001)
          [] p = <<nE>> -> Dir
          [] p = <<nE, nD>> -> File(<<69>>, 50)
          [] OTHER -> Absent]

Reverse(s) == [k \in 1..Len(s) |-> s[Len(s) + 1 - k]]

\* Path.iterdir(): the existing children, in an order the platform chooses
\* (rev: the listing order or its reverse)
iterdir(fs, p, rev) ==
    LET kids == SelectSeq(Listing, LAMBDA q :
                    /\ Len(q) = Len(p) + 1
                    /\ SubSeq(q, 1, Len(p)) = p
                    /\ fs[q].kind # "none")
    IN  IF rev THEN Reverse(kids) ELSE kids

\* Path(directory) / file_path_relative, as a string
JoinPath(directory, rel) ==
    IF directory = Root THEN Root \o rel ELSE directory \o Sep \o rel

RECURSIVE PrefixDirs(_, _, _)
\* for directory in reversed(dirs[0:k]): rel = Path(directory) / rel
PrefixDirs(dirs, k, rel) ==
    IF k = 0 THEN rel
    ELSE Bind(JoinPath(dirs[k], rel), LAMBDA r : PrefixDirs(dirs, k - 1, r))

\* file_path_relative of from_file
RelativePath(path, depth) ==
    Bind(<<Root>> \o path, LAMBDA parts :
      IF depth > 0
      THEN Bind(Slice(parts, Max(0, Len(parts) - depth - 1), Len(parts) - 1),
                LAMBDA dirs : PrefixDirs(dirs, Len(dirs), parts[Len(parts)]))
      ELSE parts[Len(parts)])

\* FileHeader.from_file: [err, header]; to_bytes raises OverflowError
from_file(fs, path, depth) ==
    Bind(RelativePath(path, depth), LAMBDA file_path_relative :
      LET ts == fs[path].st_mtime10 \div 10
          sz == Len(fs[path].data)
          n == Len(file_path_relative)
      IN  IF /\ FitsBytes(ts, BYTES_FOR.timestamp)
             /\ FitsBytes(sz, BYTES_FOR.file_size)
             /\ FitsBytes(n, BYTES_FOR.file_path_length)
          THEN [err |-> "",
                header |-> set_file_path(
                             set_file_path_length(
                               set_file_size(
                                 set_file_timestamp(Zeros(BytesForSum + n), ts),
                                 sz),
                               n),
                             file_path_relative)]
          ELSE [err |-> "OverflowError", header |-> <<>>])

RECURSIVE SumHeaderSizesFrom(_, _)
SumHeaderSizesFrom(hs, k) ==
    IF k > Len(hs) THEN 0 ELSE header_size(hs[k]) + SumHeaderSizesFrom(hs, k + 1)

\* sum(map(lambda header: header.header_size, file_header_list))
SumHeaderSizes(hs) == SumHeaderSizesFrom(hs, 1)

RECURSIVE AssignOffsetsFrom(_, _, _)
AssignOffsetsFrom(hs, k, current_offset) ==
    IF k > Len(hs) THEN <<>>
    ELSE <<set_file_offset(hs[k], current_offset)>>
           \o Bind(current_offset + file_size(hs[k]),
                   LAMBDA next_offset : AssignOffsetsFrom(hs, k + 1, next_offset))

\* for file_header in file_header_list: offset = current; current += file_size
AssignOffsets(hs, current_offset) ==
    Bind(current_offset, LAMBDA c : AssignOffsetsFrom(hs, 1, c))

\* a first offset that forgets the signature, as before archives had one
FirstOffset_no_signature(hs) == SumHeaderSizes(hs)

\* the first offset given out at depth 0
FirstOffset(hs) == Len(FILE_SIGNATURE) + SumHeaderSizes(hs)

Raise(e) == [err |-> e, headers |-> <<>>, files |-> <<>>]

RECURSIVE WalkPaths(_, _, _, _, _)
\* the loop over paths[k..] of _header_path_list_from_paths: [err, headers, files]
WalkPaths(fs, paths, k, depth, rev) ==
    IF k > Len(paths) THEN [err |-> "", headers |-> <<>>, files |-> <<>>]
    ELSE
      Bind(IF fs[paths[k]].kind = "none" THEN Raise("ResourceNonExistentError")
           ELSE IF fs[paths[k]].kind = "file"
           THEN Bind(from_file(fs, paths[k], depth), LAMBDA fh :
                  IF fh.err # "" THEN Raise(fh.err)
                  ELSE [err |-> "", headers |-> <<fh.header>>, files |-> <<paths[k]>>])
           ELSE IF fs[paths[k]].kind = "dir"
           THEN Bind(iterdir(fs, paths[k], rev), LAMBDA kids :
                  WalkPaths(fs, kids, 1, depth + 1, rev))
           ELSE Raise("ResourceCantBeArchivedError"),
           LAMBDA one :
             IF one.err # "" THEN one
             ELSE Bind(WalkPaths(fs, paths, k + 1, depth, rev), LAMBDA rest :
                    IF rest.err # "" THEN rest
                    ELSE [err |-> "", headers |-> one.headers \o rest.headers,
                          files |-> one.files \o rest.files]))

\* _header_path_list_from_paths(*paths) as pack calls it, depth = 0
header_path_list_from_paths(fs, paths, rev) ==
    Bind(WalkPaths(fs, paths, 1, 0, rev), LAMBDA w :
      IF w.err # "" THEN w
      ELSE [err |-> "", headers |-> AssignOffsets(w.headers, FirstOffset(w.headers)),
            files |-> w.files])

RECURSIVE ConcatFrom(_, _)
ConcatFrom(ss, k) == IF k > Len(ss) THEN <<>> ELSE ss[k] \o ConcatFrom(ss, k + 1)

ConcatAll(ss) == Bind(ss, LAMBDA v : ConcatFrom(v, 1))

\* what pack writes: signature, every header_array, every file's bytes
ArchiveBytes(fs, headers, files) ==
    FILE_SIGNATURE \o ConcatAll(headers)
      \o ConcatAll([k \in 1..Len(files) |-> fs[files[k]].data])

(***************************************************************************)
(* The destination directory of unpack, as seen from inside it: relative   *)
(* paths (strings) of its directories and of its files with their bytes.   *)
(***************************************************************************)
EmptyDest == [exists |-> FALSE, dirs |-> {}, files |-> <<>>]

\* the proper ancestors of relative path p: what precedes each separator
Ancestors(p) == {SubSeq(p, 1, k - 1) : k \in {j \in 1..Len(p) : p[j] = Sep[1]}}
\* Path(p).parent; the empty string stands for the directory itself
Parent(p) ==
    LET cuts == {j \in 1..Len(p) : p[j] = Sep[1]}
    IN  IF cuts = {} THEN <<>>
        ELSE SubSeq(p, 1, (CHOOSE j \in cuts : \A i \in cuts : i <= j) - 1)

DestExists(d, p) == p = <<>> \/ p \in d.dirs \/ p \in DOMAIN d.files

\* _create_file_path then the open(.., 'wb') of _unpack_file on path p,
\* writing content: [err, dest]
CreateAndWrite(d, p, content) ==
    LET underFile == \E a \in Ancestors(p) : a \in DOMAIN d.files
        made == IF DestExists(d, p) THEN d
                ELSE IF ~DestExists(d, Parent(p))
                THEN [d EXCEPT !.dirs = @ \cup Ancestors(p)]
                ELSE d
    IN  IF ~DestExists(d, p) /\ underFile
        THEN [err |-> "NotADirectoryError", dest |-> d]
        ELSE IF p = <<>> THEN [err |-> "FileNotFoundError", dest |-> made]
        ELSE IF p \in d.dirs THEN [err |-> "IsADirectoryError", dest |-> made]
        ELSE [err |-> "", dest |-> [made EXCEPT !.files = (p :> content) @@ @]]

RECURSIVE CopyChunks(_, _, _, _, _)
\* the while loop of _unpack_file: the bytes written to the file
CopyChunks(data, pos, bytes_to_read, chunk_size, out) ==
    Bind(Slice(data, pos, pos + Min(chunk_size, bytes_to_read)), LAMBDA chunk :
      IF Len(chunk) = 0 THEN out
      ELSE Bind(<<pos + Len(chunk), bytes_to_read - Min(chunk_size, bytes_to_read),
                  out \o chunk>>,
                LAMBDA n : CopyChunks(data, n[1], n[2], chunk_size, n[3])))

\* _unpack_file's content for header h
UnpackedBytes(data, h) ==
    Bind(<<file_offset(h), file_size(h)>>, LAMBDA f :
      CopyChunks(data, f[1], f[2], CHUNK_SIZE, <<>>))

(***************************************************************************)
(* Sorting and renaming.                                                   *)
(***************************************************************************)
RECURSIVE FirstGreater(_, _, _)
\* the first position of sorted, from k on, whose path is greater than key
FirstGreater(sorted, key, k) ==
    IF k > Len(sorted) THEN k
    ELSE IF StrLess(key, file_path(sorted[k]).str) THEN k
    ELSE FirstGreater(sorted, key, k + 1)

\* h goes after every element whose path is not greater: the sort is stable
InsertByPath(sorted, h) ==
    Bind(FirstGreater(sorted, file_path(h).str, 1), LAMBDA at :
      SubSeq(sorted, 1, at - 1) \o <<h>> \o SubSeq(sorted, at, Len(sorted)))

RECURSIVE SortedPrefix(_, _)
\* hs[1..n], sorted
SortedPrefix(hs, n) ==
    IF n = 0 THEN <<>>
    ELSE Bind(SortedPrefix(hs, n - 1), LAMBDA sorted : InsertByPath(sorted, hs[n]))

\* a list left in the order it was read
SortedByPath_unsorted(hs) == hs

SortedByPath(hs) == SortedPrefix(hs, Len(hs))

\* file_header_list.sort(key=lambda fh: fh.file_path): a key that does not
\* decode raises UnicodeDecodeError
SortHeaders(hs) ==
    IF \A k \in 1..Len(hs) : file_path(hs[k]).ok
    THEN [err |-> "", headers |-> SortedByPath(hs)]
    ELSE [err |-> "UnicodeDecodeError", headers |-> <<>>]

\* a renaming selector: a str or an int
StrSel(s) == [isint |-> FALSE, int |-> 0, str |-> s]
IntSel(k) == [isint |-> TRUE, int |-> k, str |-> <<>>]

\* {original_name: changed_name for ...}: the dict as key -> value; a later
\* pair replaces an earlier one with the same key
RenamingDict(renaming) ==
    [key \in {renaming[i][1] : i \in 1..Len(renaming)} |->
        LET last == CHOOSE i \in 1..Len(renaming) :
                        /\ renaming[i][1] = key
                        /\ \A j \in 1..Len(renaming) : renaming[j][1] = key => j <= i
        IN  renaming[last][2]]

\* a renaming that renames the entries it names and keeps the others
ApplyRenaming_keep_all(renaming, hs) ==
    IF Len(renaming) = 0 THEN hs
    ELSE Bind(RenamingDict(renaming), LAMBDA dict :
           [k \in 1..Len(hs) |->
              IF StrSel(file_path(hs[k]).str) \in DOMAIN dict
              THEN with_different_path(hs[k], dict[StrSel(file_path(hs[k]).str)])
              ELSE hs[k]])

\* lines 95-98 of unpack: filter on fh.file_path in renaming.keys(), then
\* with_different_path; a str never equals an int key
ApplyRenaming(renaming, hs) ==
    IF Len(renaming) = 0 THEN hs
    ELSE Bind(RenamingDict(renaming), LAMBDA dict :
           Bind(SelectSeq(hs, LAMBDA h : StrSel(file_path(h).str) \in DOMAIN dict),
                LAMBDA kept :
                  [k \in 1..Len(kept) |->
                     Bind(dict[StrSel(file_path(kept[k]).str)], LAMBDA changed_name :
                       with_different_path(kept[k], changed_name))]))

\* the list info returns: enumerate() counts from 0
InfoList(hs) ==
    [k \in 1..Len(hs) |->
        <<k - 1, file_size(hs[k]), file_timestamp(hs[k]), file_path(hs[k]).str>>]

(***************************************************************************)
(* Inputs of a session.                                                    *)
(***************************************************************************)
\* the paths pack is given
PackInputs == {<<nA>>, <<nB>>, <<nD>>, <<nD, nA>>, <<nE, nD>>, <<nN>>}
ArgLists == UNION {[1..n -> PackInputs] : n \in 0..MaxArgs}
\* archive_name of pack: a fresh name, or the name of an input
ArchiveNames == {<<nO>>, <<nD, nA>>}
\* archive_path of info and unpack
ArchivePath == <<nO>>

\* a header as an archive not written by pack may hold it
RawHeader(offset, ts, size, path) ==
    ToBytes(offset, 8) \o ToBytes(ts, 4) \o ToBytes(size, 4) \o ToBytes(Len(path), 2)
      \o Encode(path)

\* files found at archive_path that pack did not write: not an archive; a
\* header whose offset lies before its own end; a header whose offset lies
\* beyond the end of the file; a file cut inside its first header
ForeignFiles ==
    { <<104, 105>>,
      FILE_SIGNATURE \o RawHeader(12, 3, 1, nA) \o <<120>>,
      FILE_SIGNATURE \o RawHeader(40, 3, 1, nA) \o <<120>>,
      FILE_SIGNATURE \o SubSeq(RawHeader(30, 3, 1, nA), 1, 10) }

\* the renaming arguments of unpack: (selector, new name) pairs
Renamings ==
    { <<>>,
      << <<IntSel(1), nR>> >>,
      << <<StrSel(nA), nR>> >>,
      << <<StrSel(nD \o Sep \o nA), nD \o Sep \o nR>>, <<StrSel(nB), nD>> >>,
      << <<StrSel(nA), nR>>, <<StrSel(nD \o Sep \o nA), nE \o Sep \o nR>> >> }

(***************************************************************************)
(* The state.                                                              *)
(***************************************************************************)
VARIABLES
    fsys,       \* the file system: absolute path -> node
    dest,       \* the destination directory of unpack
    cwd,        \* the process working directory: "home" or "dest"
    pc,         \* where the running operation stands
    op,         \* the running operation and its arguments
    headers,    \* file_header_list of the running operation
    sentinel,   \* header_list_sentinel
    cursor,     \* current_seek: the archive stream position
    loops,      \* how many times the scan loop body ran
    idx,        \* the header unpack's for loop is at
    result,     \* how the last operation ended
    packed      \* what the last pack call computed

vars == <<fsys, dest, cwd, pc, op, headers, sentinel, cursor, loops, idx, result, packed>>

NoOp == [name |-> "", renaming |-> <<>>, previous_working_directory |-> ""]
NoResult == [op |-> "", status |-> "", value |-> <<>>]
NotPacked == [done |-> FALSE, err |-> "", headers |-> <<>>, files |-> <<>>,
              data |-> <<>>, archive_name |-> <<>>]

Init ==
    /\ \E o \in {Absent} \cup {File(b, 0) : b \in ForeignFiles} :
          fsys = [SourceTree EXCEPT ![ArchivePath] = o]
    /\ dest = EmptyDest
    /\ cwd = "home"
    /\ pc = "idle"
    /\ op = NoOp
    /\ headers = <<>>
    /\ sentinel = 0
    /\ cursor = 0
    /\ loops = 0
    /\ idx = 0
    /\ result = NoResult
    /\ packed = NotPacked

(***************************************************************************)
(* pack                                                                    *)
(***************************************************************************)
\* a collision test that looks at the first input file only
ArchiveIsInput_first(archive_name, files) == Len(files) > 0 /\ files[1] = archive_name

\* the collision test of pack, line 40
ArchiveIsInput(archive_name, files) == \E k \in 1..Len(files) : files[k] = archive_name

\* pack(*paths, archive_name): [err, headers, files, fsys]
pack(fs, paths, archive_name, rev) ==
    Bind(header_path_list_from_paths(fs, paths, rev), LAMBDA hp :
      IF hp.err # "" THEN [err |-> hp.err, headers |-> <<>>, files |-> <<>>, fsys |-> fs]
      ELSE IF ArchiveIsInput(archive_name, hp.files)
      THEN [err |-> "ArchiveAlreadyExistsError", headers |-> hp.headers,
            files |-> hp.files, fsys |-> fs]
      ELSE [err |-> "", headers |-> hp.headers, files |-> hp.files,
            fsys |-> [fs EXCEPT ![archive_name] =
                         File(ArchiveBytes(fs, hp.headers, hp.files), 0)]])

Pack(paths, archive_name, rev) ==
    /\ pc = "idle"
    /\ ~packed.done
    /\ \E r \in {pack(fsys, paths, archive_name, rev)} :
          /\ fsys' = r.fsys
          /\ packed' = [done |-> TRUE, err |-> r.err, headers |-> r.headers,
                        files |-> r.files,
                        data |-> [k \in 1..Len(r.files) |-> fsys[r.files[k]].data],
                        archive_name |-> archive_name]
          /\ result' = [op |-> "pack", status |-> IF r.err = "" THEN "ok" ELSE r.err,
                        value |-> <<>>]
    /\ UNCHANGED <<dest, cwd, pc, op, headers, sentinel, cursor, loops, idx>>

(***************************************************************************)
(* _header_list_from_archive, which info and unpack begin with             *)
(***************************************************************************)
\* a scan that reads the signature before it looks whether the file exists
BeginScan_signature_first(name, renaming) ==
    /\ pc = "idle"
    /\ op' = [name |-> name, renaming |-> renaming, previous_working_directory |-> ""]
    /\ IF Slice(fsys[ArchivePath].data, 0, Len(FILE_SIGNATURE)) # FILE_SIGNATURE
       THEN /\ result' = [op |-> name, status |-> "ArchiveNotRecognizableError",
                          value |-> <<>>]
            /\ pc' = "done"
            /\ UNCHANGED <<headers, sentinel, cursor>>
       ELSE IF fsys[ArchivePath].kind = "none"
       THEN /\ result' = [op |-> name, status |-> "ArchiveNonExistentError",
                          value |-> <<>>]
            /\ pc' = "done"
            /\ UNCHANGED <<headers, sentinel, cursor>>
       ELSE \E file_header \in {from_archive(fsys[ArchivePath].data, Len(FILE_SIGNATURE))} :
            /\ headers' = <<file_header>>
            /\ sentinel' = file_offset(file_header)
            /\ cursor' = Len(FILE_SIGNATURE) + header_size(file_header)
            /\ pc' = "scan"
            /\ UNCHANGED result
    /\ UNCHANGED <<fsys, dest, cwd, loops, idx, packed>>

\* lines 118-131: the checks, the first header, the sentinel, the first seek
BeginScan(name, renaming) ==
    /\ pc = "idle"
    /\ op' = [name |-> name, renaming |-> renaming, previous_working_directory |-> ""]
    /\ IF fsys[ArchivePath].kind = "none"
       THEN /\ result' = [op |-> name, status |-> "ArchiveNonExistentError",
                          value |-> <<>>]
            /\ pc' = "done"
            /\ UNCHANGED <<headers, sentinel, cursor>>
       ELSE IF Slice(fsys[ArchivePath].data, 0, Len(FILE_SIGNATURE)) # FILE_SIGNATURE
       THEN /\ result' = [op |-> name, status |-> "ArchiveNotRecognizableError",
                          value |-> <<>>]
            /\ pc' = "done"
            /\ UNCHANGED <<headers, sentinel, cursor>>
       ELSE \E file_header \in {from_archive(fsys[ArchivePath].data, Len(FILE_SIGNATURE))} :
            /\ headers' = <<file_header>>
            /\ sentinel' = file_offset(file_header)
            /\ cursor' = Len(FILE_SIGNATURE) + header_size(file_header)
            /\ pc' = "scan"
            /\ UNCHANGED result
    /\ UNCHANGED <<fsys, dest, cwd, loops, idx, packed>>

Info == BeginScan("info", <<>>)

Unpack(renaming) == BeginScan("unpack", renaming)

\* lines 132-135: one turn of the while loop
ScanLoop ==
    /\ pc = "scan"
    /\ cursor < sentinel
    /\ loops < MaxScan
    /\ \E file_header \in {from_archive(fsys[ArchivePath].data, cursor)} :
          /\ headers' = Append(headers, file_header)
          /\ cursor' = cursor + header_size(file_header)
    /\ loops' = loops + 1
    /\ UNCHANGED <<fsys, dest, cwd, pc, op, sentinel, idx, result, packed>>

\* lines 137-138: the loop is left, the list sorted and returned
ScanReturn ==
    /\ pc = "scan"
    /\ ~(cursor < sentinel)
    /\ \E s \in {SortHeaders(headers)} :
          IF s.err # ""
          THEN /\ result' = [op |-> op.name, status |-> s.err, value |-> <<>>]
               /\ pc' = "done"
               /\ UNCHANGED headers
          ELSE /\ headers' = s.headers
               /\ pc' = "scanned"
               /\ UNCHANGED result
    /\ UNCHANGED <<fsys, dest, cwd, op, sentinel, cursor, loops, idx, packed>>

(***************************************************************************)
(* info                                                                    *)
(***************************************************************************)
InfoReturn ==
    /\ pc = "scanned"
    /\ op.name = "info"
    /\ result' = [op |-> "info", status |-> "ok", value |-> InfoList(headers)]
    /\ pc' = "done"
    /\ UNCHANGED <<fsys, dest, cwd, op, headers, sentinel, cursor, loops, idx, packed>>

(***************************************************************************)
(* unpack                                                                  *)
(***************************************************************************)
\* lines 91-100: the working directory is remembered, the destination made,
\* the renaming applied, the working directory changed
UnpackEnter ==
    /\ pc = "scanned"
    /\ op.name = "unpack"
    /\ op' = [op EXCEPT !.previous_working_directory = cwd]
    /\ dest' = [dest EXCEPT !.exists = TRUE]
    /\ headers' = ApplyRenaming(op.renaming, headers)
    /\ cwd' = "dest"
    /\ idx' = 1
    /\ pc' = "extract"
    /\ UNCHANGED <<fsys, sentinel, cursor, loops, result, packed>>

\* _create_file_path and _unpack_file for header h: [err, dest]
ExtractOne(data, d, h) ==
    Bind(file_path(h), LAMBDA path :
      IF ~path.ok THEN [err |-> "UnicodeDecodeError", dest |-> d]
      ELSE Bind(UnpackedBytes(data, h), LAMBDA content :
             CreateAndWrite(d, path.str, content)))

\* lines 103-105: one turn of the for loop; an error leaves unpack at once
UnpackFile ==
    /\ pc = "extract"
    /\ idx <= Len(headers)
    /\ \E w \in {ExtractOne(fsys[ArchivePath].data, dest, headers[idx])} :
          /\ dest' = w.dest
          /\ IF w.err # ""
             THEN /\ result' = [op |-> "unpack", status |-> w.err, value |-> <<>>]
                  /\ pc' = "done"
                  /\ UNCHANGED idx
             ELSE /\ idx' = idx + 1
                  /\ UNCHANGED <<pc, result>>
    /\ UNCHANGED <<fsys, cwd, op, headers, sentinel, cursor, loops, packed>>

\* line 106: the working directory is set back
UnpackReturn ==
    /\ pc = "extract"
    /\ idx > Len(headers)
    /\ cwd' = op.previous_working_directory
    /\ result' = [op |-> "unpack", status |-> "ok", value |-> <<>>]
    /\ pc' = "done"
    /\ UNCHANGED <<fsys, dest, op, headers, sentinel, cursor, loops, idx, packed>>

Next ==
    \/ \E paths \in ArgLists, archive_name \in ArchiveNames, rev \in BOOLEAN :
          Pack(paths, archive_name, rev)
    \/ Info
    \/ \E renaming \in Renamings : Unpack(renaming)
    \/ ScanLoop
    \/ ScanReturn
    \/ InfoReturn
    \/ UnpackEnter
    \/ UnpackFile
    \/ UnpackReturn

Spec == Init /\ [][Next]_vars

(***************************************************************************)
(* Properties.                                                             *)
(***************************************************************************)
\* the archive at ArchivePath is the one the session's pack wrote
PackedArchive ==
    /\ packed.done
    /\ packed.err = ""
    /\ packed.archive_name = ArchivePath

\* the number of headers pack wrote
N == Len(packed.headers)

\* the length of the header block / of the content block pack wrote
HeaderBlockLen == Len(ConcatAll(packed.headers))
ContentBlockLen == Len(ConcatAll(packed.data))

\* the relative path pack stored for its k-th entry
PackedPath(k) == file_path(packed.headers[k]).str

\* unpack, called with no renamings, has returned normally
UnpackedAll ==
    /\ pc = "done"
    /\ result.op = "unpack"
    /\ result.status = "ok"
    /\ op.renaming = <<>>

\* C1: round trip.  After pack and an unpack with no renamings, the
\* destination holds exactly one file per flattened input file, at the
\* entry's relative path, with the bytes of the source file.
C1_RoundTrip ==
    (PackedArchive /\ UnpackedAll) =>
        /\ \A k \in 1..N :
              /\ PackedPath(k) \in DOMAIN dest.files
              /\ dest.files[PackedPath(k)] = packed.data[k]
        /\ Cardinality(DOMAIN dest.files)
             = Cardinality({packed.files[k] : k \in 1..N})

\* C2: offset contiguity.  In the header list of pack, the first
\* content_offset is the signature length plus the length of the header
\* block, and every other one is its predecessor's offset plus size.
C2_OffsetContiguity ==
    (packed.done /\ N >= 1) =>
        /\ file_offset(packed.headers[1]) = Len(FILE_SIGNATURE) + HeaderBlockLen
        /\ \A i \in 1..(N - 1) :
              file_offset(packed.headers[i + 1])
                = file_offset(packed.headers[i]) + file_size(packed.headers[i])

\* pack has flattened nested directories into three entries or more
C2_Witness ==
    /\ packed.done
    /\ packed.err = ""
    /\ N >= 3
    /\ \E k \in 1..N : Len(packed.files[k]) = 3

\* C3: sentinel termination.  On an archive pack wrote with N >= 1 headers
\* the scan reads the headers pack wrote, one per turn, never passes the
\* sentinel, leaves the loop with exactly N headers and the cursor on the
\* sentinel, which is the first byte of the content block; with N = 1 the
\* loop body never runs.
C3_SentinelTermination ==
    (PackedArchive /\ N >= 1 /\ pc \in {"scan", "scanned"}) =>
        /\ sentinel = Len(FILE_SIGNATURE) + HeaderBlockLen
        /\ sentinel + ContentBlockLen = Len(fsys[ArchivePath].data)
        /\ cursor <= sentinel
        /\ loops + 1 <= N
        /\ (N = 1 => loops = 0)
        /\ pc = "scan" =>
              /\ headers = SubSeq(packed.headers, 1, loops + 1)
              /\ cursor = Len(FILE_SIGNATURE) + Len(ConcatAll(headers))
              /\ (cursor = sentinel <=> loops + 1 = N)
        /\ pc = "scanned" =>
              /\ cursor = sentinel
              /\ Len(headers) = N
              /\ \A h \in {packed.headers[k] : k \in 1..N} :
                    Cardinality({k \in 1..N : headers[k] = h})
                      = Cardinality({k \in 1..N : packed.headers[k] = h})

\* the scan has returned three headers or more, of different sizes
C3_Witness ==
    /\ PackedArchive
    /\ pc = "scanned"
    /\ N >= 3
    /\ \E i, j \in 1..N : header_size(packed.headers[i]) # header_size(packed.headers[j])

\* C4: determinism.  The list info returns is in non-decreasing order of
\* path, whatever the order of the headers in the archive.
C4_InfoSorted ==
    (result.op = "info" /\ result.status = "ok") =>
        \A i, j \in 1..Len(result.value) :
            i < j => ~StrLess(result.value[j][4], result.value[i][4])

\* info has returned the list of an archive whose headers pack wrote in
\* decreasing order of path
C4_Witness ==
    /\ PackedArchive
    /\ result.op = "info"
    /\ result.status = "ok"
    /\ N >= 2
    /\ \A i \in 1..(N - 1) : StrLess(PackedPath(i + 1), PackedPath(i))

\* C5: the k-th tuple of the list info returns carries the 1-based index k
\* and the size, modified time and path of the k-th header in path order.
C5_InfoIndexOneBased ==
    (PackedArchive /\ N >= 1 /\ result.op = "info" /\ result.status = "ok") =>
        \A k \in 1..Len(result.value) :
            result.value[k] = <<k, file_size(headers[k]), file_timestamp(headers[k]),
                                file_path(headers[k]).str>>

\* C6: collision detection.  A pack call whose archive_name is one of the
\* flattened input files raises ArchiveAlreadyExistsError and leaves the
\* file system as it was.
C6_CollisionWritesNothing ==
    [][ (/\ ~packed.done
         /\ packed'.done
         /\ \E k \in 1..Len(packed'.files) : packed'.files[k] = packed'.archive_name)
        => (/\ result'.status = "ArchiveAlreadyExistsError"
            /\ fsys' = fsys) ]_vars

\* pack was given a directory and the name of a file inside it as archive_name
C6_Witness ==
    /\ packed.done
    /\ result.op = "pack"
    /\ result.status = "ArchiveAlreadyExistsError"
    /\ Len(packed.archive_name) = 2
    /\ fsys[packed.archive_name] = SourceTree[packed.archive_name]

\* C7: working-directory restoration.  However an unpack with no renamings
\* ends on an archive pack wrote, the working directory is what it was when
\* unpack was called.
C7_CwdRestored ==
    (/\ PackedArchive
     /\ N >= 1
     /\ pc = "done"
     /\ result.op = "unpack"
     /\ op.renaming = <<>>)
    => cwd = "home"

\* C8: rename by index.  unpack((1, "r")) creates r in the destination,
\* holding the content of the first entry of the path-sorted header list.
C8_RenameByIndex ==
    (/\ PackedArchive
     /\ N >= 1
     /\ pc = "done"
     /\ result.op = "unpack"
     /\ op.renaming = << <<IntSel(1), nR>> >>)
    => /\ result.status = "ok"
       /\ nR \in DOMAIN dest.files
       /\ \E k \in 1..N :
             /\ \A j \in 1..N : ~StrLess(PackedPath(j), PackedPath(k))
             /\ dest.files[nR] = packed.data[k]

\* C9: overshoot detection.  Once the cursor has passed the sentinel the
\* scan ends in CorruptHeaderBlockError; it returns no list.
C9_OvershootDetected ==
    (cursor > sentinel /\ pc # "scan") =>
        (pc = "done" /\ result.status = "CorruptHeaderBlockError")

\* C10: truncation detection.  A scan that could not read the whole fixed
\* prefix of a header ends in TruncatedArchiveError; it returns no list.
C10_TruncationDetected ==
    (/\ pc \in {"scanned", "done"}
     /\ op.name = "info"
     /\ \E k \in 1..Len(headers) : header_size(headers[k]) < BytesForSum)
    => result.status = "TruncatedArchiveError"

\* C11: scan termination.  Every turn of the scan loop strictly increases
\* the cursor, so that the loop, whose file is finite, cannot run forever.
C11_ScanCursorIncreases ==
    [][ (pc = "scan" /\ loops' = loops + 1) => cursor' > cursor ]_vars

(***************************************************************************)
(* FileHeader on its own: a header is built from a file whose name may     *)
(* hold characters of more than one byte, then copied under a new path.    *)
(***************************************************************************)
\* the longest file name, in characters
MaxName == 2

\* the characters of a name: a (1 byte), e-acute (2 bytes), euro sign (3 bytes)
HeaderChars == {97, 233, 8364}
HeaderNames == UNION {[1..n -> HeaderChars] : n \in 1..MaxName}
\* the bytes of the file: none, or "hi"
HeaderContents == {<<>>, <<104, 105>>}

\* a file system that holds the one file
OneFile(path, data) == [p \in {path} |-> File(data, 125)]

HeaderInit ==
    /\ fsys = SourceTree
    /\ dest = EmptyDest
    /\ cwd = "home"
    /\ pc = "idle"
    /\ op = NoOp
    /\ headers = <<>>
    /\ sentinel = 0
    /\ cursor = 0
    /\ loops = 0
    /\ idx = 0
    /\ result = NoResult
    /\ packed = NotPacked

\* FileHeader.from_file on /name (depth 0) or /d/name (depth 1), then the
\* offset assignment of _header_path_list_from_paths
FromFile(name, depth, data) ==
    /\ pc = "idle"
    /\ \E path \in {IF depth = 0 THEN <<name>> ELSE <<nD, name>>} :
       \E fs \in {OneFile(path, data)} :
       \E r \in {from_file(fs, path, depth)} :
          /\ r.err = ""
          /\ fsys' = fs
          /\ headers' = AssignOffsets(<<r.header>>, FirstOffset(<<r.header>>))
    /\ op' = [NoOp EXCEPT !.name = "from_file"]
    /\ pc' = "built"
    /\ UNCHANGED <<dest, cwd, sentinel, cursor, loops, idx, result, packed>>

\* fh.with_different_path(new_file_path) on the header built: the original
\* stays first in the list, the copy comes second
WithDifferentPath(new_file_path) ==
    /\ pc = "built"
    /\ headers' = Append(headers, with_different_path(headers[1], new_file_path))
    /\ op' = [op EXCEPT !.name = "with_different_path"]
    /\ pc' = "renamed"
    /\ UNCHANGED <<fsys, dest, cwd, sentinel, cursor, loops, idx, result, packed>>

HeaderNext ==
    \/ \E name \in HeaderNames, depth \in {0, 1}, data \in HeaderContents :
          FromFile(name, depth, data)
    \/ \E new_file_path \in HeaderNames : WithDifferentPath(new_file_path)

HeaderSpec == HeaderInit /\ [][HeaderNext]_vars

\* C12: header size invariant.  Every header from_file or with_different_path
\* built is 18 bytes longer than the path_length it records, which is the
\* number of bytes of the path it stores; the copy with_different_path made
\* has the offset, the timestamp and the size of the original.
C12_HeaderSizeInvariant ==
    /\ \A k \in 1..Len(headers) :
          /\ header_size(headers[k]) = BytesForSum + file_path_length(headers[k])
          /\ file_path_length(headers[k])
               = Len(Slice(headers[k], BytesForSum, Len(headers[k])))
    /\ pc = "renamed" =>
          /\ file_offset(headers[2]) = file_offset(headers[1])
          /\ file_timestamp(headers[2]) = file_timestamp(headers[1])
          /\ file_size(headers[2]) = file_size(headers[1])

\* the entries of the packed archive whose path is a selector of the
\* renaming unpack was given, and the new path of such an entry
RenamedEntries == {k \in 1..N : StrSel(PackedPath(k)) \in DOMAIN RenamingDict(op.renaming)}
NewPath(k) == RenamingDict(op.renaming)[StrSel(PackedPath(k))]

\* C13: rename filtering.  An unpack called with renamings never writes a
\* file that is not the new path of an entry some renaming names; when it
\* returns, the files of the destination are exactly the new paths of the
\* entries named, each holding its entry's bytes (where two entries named
\* share a new path, the file holds one of them).
C13_RenameFiltering ==
    (PackedArchive /\ op.name = "unpack" /\ op.renaming # <<>>) =>
        /\ DOMAIN dest.files \subseteq {NewPath(k) : k \in RenamedEntries}
        /\ (pc = "done" /\ result.status = "ok") =>
              /\ DOMAIN dest.files = {NewPath(k) : k \in RenamedEntries}
              /\ \A k \in RenamedEntries :
                    \/ \E j \in RenamedEntries : j # k /\ NewPath(j) = NewPath(k)
                    \/ dest.files[NewPath(k)] = packed.data[k]

\* unpack has returned after it renamed two entries and dropped a third
C13_Witness ==
    /\ PackedArchive
    /\ pc = "done"
    /\ result.op = "unpack"
    /\ result.status = "ok"
    /\ Cardinality(RenamedEntries) = 2
    /\ N = 3
    /\ Cardinality(DOMAIN dest.files) = 2

(***************************************************************************)
(* _unpack_file on its own, one read of the copy loop at a time, for a     *)
(* header that places any range on the archive and for any chunk size.     *)
(***************************************************************************)
\* the length of the archive, and the largest of the small chunk sizes
MaxData == 6
MaxChunk == 3

\* the archive: the byte at offset k is k + 1, so that a range names its bytes
CopyData == [k \in 1..MaxData |-> k]
ChunkSizes == (1..MaxChunk) \cup {CHUNK_SIZE}

\* a read that asks for a whole chunk whatever remains to be read
ReadRequest_whole_chunk(chunk_size, bytes_to_read) == chunk_size

\* min(CHUNK_SIZE, bytes_to_read), line 219
ReadRequest(chunk_size, bytes_to_read) == Min(chunk_size, bytes_to_read)

CopyInit ==
    /\ fsys = [SourceTree EXCEPT ![ArchivePath] = File(CopyData, 0)]
    /\ dest = [EmptyDest EXCEPT !.exists = TRUE]
    /\ cwd = "dest"
    /\ pc = "idle"
    /\ \E chunk_size \in ChunkSizes :
          op = [name |-> "_unpack_file", renaming |-> <<>>,
                previous_working_directory |-> "home",
                chunk_size |-> chunk_size, bytes_to_read |-> 0]
    /\ \E offset \in 0..MaxData, size \in 0..MaxData :
          headers = <<RawHeader(offset, 3, size, nA)>>
    /\ sentinel = 0
    /\ cursor = 0
    /\ loops = 0
    /\ idx = 1
    /\ result = NoResult
    /\ packed = NotPacked

\* lines 216-218: the file is opened for writing, the archive positioned
OpenFile ==
    /\ pc = "idle"
    /\ \E path \in {file_path(headers[1]).str} :
          dest' = [dest EXCEPT !.files = (path :> <<>>) @@ @]
    /\ cursor' = file_offset(headers[1])
    /\ op' = [op EXCEPT !.bytes_to_read = file_size(headers[1])]
    /\ pc' = "copy"
    /\ UNCHANGED <<fsys, cwd, headers, sentinel, loops, idx, result, packed>>

\* lines 219-221: a read that returns bytes, which are written to the file
CopyChunk ==
    /\ pc = "copy"
    /\ \E n \in {ReadRequest(op.chunk_size, op.bytes_to_read)} :
       \E chunk \in {Slice(fsys[ArchivePath].data, cursor, cursor + n)} :
          /\ Len(chunk) > 0
          /\ cursor' = cursor + Len(chunk)
          /\ op' = [op EXCEPT !.bytes_to_read = @ - n]
          /\ dest' = [dest EXCEPT !.files[file_path(headers[1]).str] = @ \o chunk]
    /\ loops' = loops + 1
    /\ UNCHANGED <<fsys, cwd, pc, headers, sentinel, idx, result, packed>>

\* line 219: a read that returns nothing ends the loop, and the file is closed
CloseFile ==
    /\ pc = "copy"
    /\ \E n \in {ReadRequest(op.chunk_size, op.bytes_to_read)} :
          Len(Slice(fsys[ArchivePath].data, cursor, cursor + n)) = 0
    /\ pc' = "copied"
    /\ UNCHANGED <<fsys, dest, cwd, op, headers, sentinel, cursor, loops, idx, result, packed>>

CopyNext == OpenFile \/ CopyChunk \/ CloseFile

CopySpec == CopyInit /\ [][CopyNext]_vars

\* the range the header names, and whether the archive holds all of it
CopyFrom == file_offset(headers[1])
CopyTo == file_offset(headers[1]) + file_size(headers[1])
CopyFile == dest.files[file_path(headers[1]).str]

\* C14: exact byte-range extraction.  For a header whose range lies in the
\* archive, whatever the chunk size and the size: no read of the copy loop
\* asks for a byte at or beyond offset + size, the file holds at every turn
\* the bytes from offset up to the stream position, and when the loop ends
\* the file holds exactly the size bytes of the range.
C14_ExactByteRange ==
    (op.name = "_unpack_file" /\ CopyTo <= Len(fsys[ArchivePath].data)) =>
        /\ pc = "copy" =>
              /\ cursor + ReadRequest(op.chunk_size, op.bytes_to_read) <= CopyTo
              /\ CopyFile = Slice(fsys[ArchivePath].data, CopyFrom, cursor)
              /\ cursor + op.bytes_to_read = CopyTo
        /\ pc = "copied" =>
              /\ Len(CopyFile) = file_size(headers[1])
              /\ CopyFile = Slice(fsys[ArchivePath].data, CopyFrom, CopyTo)
              /\ CopyFile = CopyChunks(fsys[ArchivePath].data, CopyFrom,
                                       file_size(headers[1]), op.chunk_size, <<>>)

\* a copy of several whole chunks has ended: the size is a multiple of the
\* chunk size, and the last read asked for nothing
C14_Witness ==
    /\ op.name = "_unpack_file"
    /\ pc = "copied"
    /\ CopyTo <= Len(fsys[ArchivePath].data)
    /\ op.chunk_size = 2
    /\ file_size(headers[1]) = 4
    /\ loops = 2
    /\ op.bytes_to_read = 0

\* C15: validation precedes side effects in unpack.  The step with which
\* unpack starts, on an archive path that does not exist, raises
\* ArchiveNonExistentError, and on a file that does not begin with the
\* signature raises ArchiveNotRecognizableError; either way unpack is over
\* with the destination not created, no file written and the working
\* directory unchanged.
C15_ValidationPrecedesEffects ==
    /\ [][ (pc = "idle" /\ pc' # "idle" /\ op'.name = "unpack") =>
             /\ fsys[ArchivePath].kind = "none" =>
                   /\ result'.status = "ArchiveNonExistentError"
                   /\ pc' = "done"
                   /\ <<fsys, dest, cwd>>' = <<fsys, dest, cwd>>
             /\ (/\ fsys[ArchivePath].kind # "none"
                 /\ Slice(fsys[ArchivePath].data, 0, Len(FILE_SIGNATURE)) # FILE_SIGNATURE) =>
                   /\ result'.status = "ArchiveNotRecognizableError"
                   /\ pc' = "done"
                   /\ <<fsys, dest, cwd>>' = <<fsys, dest, cwd>> ]_vars
    /\ [](/\ result.op = "unpack"
          /\ result.status \in {"ArchiveNonExistentError", "ArchiveNotRecognizableError"}
          => /\ pc = "done"
             /\ ~dest.exists
             /\ dest.files = <<>>
             /\ cwd = "home")

\* unpack has raised ArchiveNotRecognizableError on a file that exists
C15_Witness ==
    /\ pc = "done"
    /\ result.op = "unpack"
    /\ result.status = "ArchiveNotRecognizableError"
    /\ fsys[ArchivePath].kind = "file"
    /\ ~dest.exists

====
